---------------------------- MODULE Spec2Model ----------------------------
(***************************************************************************)
(* Model of gpu-monitor: the NVML snapshot builder and process merger of   *)
(* gpu-monitor-core (monitor.rs, device.rs) and the TUI application loop   *)
(* of gpu-monitor-cli (app.rs), and the IPC commands of gpu-monitor-gui    *)
(* (commands.rs).                                                          *)
(*                                                                         *)
(* The NVML library is the environment.  One answer of the library is a    *)
(* record                                                                  *)
(*   [count_ok, count, devs]                                               *)
(* where devs is a sequence of per-device answers                          *)
(*   [fail, gpu, memory, total, used, compute, graphics]                   *)
(* fail being the set of NVML queries that return Err for that device.     *)
(***************************************************************************)
EXTENDS Integers, Sequences, FiniteSets, TLC

VARIABLES
    \* ---- App (gpu-monitor-cli/src/app.rs) ----
    exit,            \* App.exit
    interval,        \* App.interval            (time units)
    gpus,            \* App.gpus                (Seq of GpuInfo)
    gpu_history,     \* App.gpu_history         (Seq of Seq of Nat)
    memory_history,  \* App.memory_history      (Seq of Seq of Nat)
    last_refresh,    \* App.last_refresh        (an Instant, time units)
    process_scroll,  \* App.process_scroll      (u16)
    \* ---- control state of App::run / run_tui ----
    pc,              \* position in App::run
    result,          \* what App::run returned ("none" while it runs)
    now,             \* the monotonic clock read by Instant::now()
    \* ---- observation of the run (history variables) ----
    iter,            \* number of loop iterations begun (saturates at IterCap)
    refreshed,       \* TRUE iff the current iteration has refreshed
    ticks,           \* number of refresh attempts of this exploration
    last_event,      \* the last input event read by handle_events
    \* ---- a single call into gpu-monitor-core under test ----
    nvml,            \* the answer of the NVML library to that call
    ret,             \* the value returned by the call ("none" before it)
    \* ---- GUI (gpu-monitor-gui/src/commands.rs) ----
    monitor,         \* the Option<GpuMonitor> inside AppState.monitor
    inits,           \* number of GpuMonitor::new() calls made so far
    lock_owner,      \* thread holding the Mutex of AppState.monitor, 0 if free
    tpc,             \* position of each command thread
    cmd,             \* the command each thread is running
    resp             \* the response of each thread's command

appvars  == <<exit, interval, gpus, gpu_history, memory_history,
              last_refresh, process_scroll>>
runvars  == <<pc, result, now, iter, refreshed, ticks, last_event>>
callvars == <<nvml, ret>>
guivars  == <<monitor, inits, lock_owner, tpc, cmd, resp>>
vars     == <<exit, interval, gpus, gpu_history, memory_history,
              last_refresh, process_scroll, pc, result, now, iter,
              refreshed, ticks, last_event, nvml, ret,
              monitor, inits, lock_owner, tpc, cmd, resp>>

Max(a, b) == IF a >= b THEN a ELSE b
Min(a, b) == IF a <= b THEN a ELSE b

\* All sequences over S of length at most n.
SeqUpTo(S, n) == UNION {[1..k -> S] : k \in 0..n}

-----------------------------------------------------------------------------
(***************************************************************************)
(* Process merger: GpuMonitor::get_gpu_processes (monitor.rs)              *)
(***************************************************************************)

\* nvml_wrapper::enums::device::UsedGpuMemory
Unavailable == [tag |-> "Unavailable", bytes |-> 0]
Used(b)     == [tag |-> "Used", bytes |-> b]

\* extract_gpu_memory: Used(bytes) => bytes, Unavailable => 0
extract_gpu_memory(used) ==
    IF used.tag = "Used" THEN used.bytes ELSE 0

\* PIDs whose /proc/{pid}/comm can be read by the monitor.
ReadablePids == {1, 3}

\* get_process_name(pid).unwrap_or_else(|| "unknown")
get_process_name(pid) ==
    IF pid \in ReadablePids THEN "comm" ELSE "unknown"

\* processes.iter_mut().find(|p| p.pid == pid): index of the first record
\* with that pid, 0 when there is none.
FindPid(processes, pid) ==
    IF \E k \in 1..Len(processes) : processes[k].pid = pid
    THEN CHOOSE k \in 1..Len(processes) :
            /\ processes[k].pid = pid
            /\ \A j \in 1..(k-1) : processes[j].pid # pid
    ELSE 0

\* The loop over compute_procs: one Compute record per reported entry.
ComputePass(compute_procs) ==
    [k \in 1..Len(compute_procs) |->
        [pid          |-> compute_procs[k].pid,
         name         |-> get_process_name(compute_procs[k].pid),
         gpu_memory   |-> extract_gpu_memory(compute_procs[k].used_gpu_memory),
         process_type |-> "Compute"]]

\* GraphicsStep adding the two memory values of a PID seen by both queries.
GraphicsStepSum(processes, proc) ==
    LET memory == extract_gpu_memory(proc.used_gpu_memory)
        k      == FindPid(processes, proc.pid)
    IN  IF k # 0
        THEN [processes EXCEPT
                ![k].process_type = "Mixed",
                ![k].gpu_memory   = processes[k].gpu_memory + memory]
        ELSE Append(processes,
                [pid          |-> proc.pid,
                 name         |-> get_process_name(proc.pid),
                 gpu_memory   |-> memory,
                 process_type |-> "Graphics"])

\* One iteration of the loop over graphics_procs.
GraphicsStep(processes, proc) ==
    LET memory == extract_gpu_memory(proc.used_gpu_memory)
        k      == FindPid(processes, proc.pid)
    IN  IF k # 0
        THEN [processes EXCEPT
                ![k].process_type = "Mixed",
                ![k].gpu_memory   = Max(processes[k].gpu_memory, memory)]
        ELSE Append(processes,
                [pid          |-> proc.pid,
                 name         |-> get_process_name(proc.pid),
                 gpu_memory   |-> memory,
                 process_type |-> "Graphics"])

RECURSIVE GraphicsPass(_, _)
GraphicsPass(processes, graphics_procs) ==
    IF graphics_procs = <<>> THEN processes
    ELSE GraphicsPass(GraphicsStep(processes, Head(graphics_procs)),
                      Tail(graphics_procs))

\* The list before sorting.  A failed query ("if let Ok(..)") contributes
\* nothing.
MergeProcesses(dev) ==
    LET afterCompute ==
            IF "running_compute_processes" \in dev.fail THEN <<>>
            ELSE ComputePass(dev.compute)
    IN  IF "running_graphics_processes" \in dev.fail THEN afterCompute
        ELSE GraphicsPass(afterCompute, dev.graphics)

\* processes.sort_by(|a, b| b.gpu_memory.cmp(&a.gpu_memory)): a stable sort,
\* computed here by insertion from the left; a record is placed after every
\* record that does not compare greater than it.
\* InsertByMemory placing a record before the records it ties with.
RECURSIVE InsertBeforeTies(_, _)
InsertBeforeTies(sorted, p) ==
    IF sorted = <<>> THEN <<p>>
    ELSE IF Head(sorted).gpu_memory > p.gpu_memory
         THEN <<Head(sorted)>> \o InsertBeforeTies(Tail(sorted), p)
         ELSE <<p>> \o sorted

RECURSIVE InsertByMemory(_, _)
InsertByMemory(sorted, p) ==
    IF sorted = <<>> THEN <<p>>
    ELSE IF Head(sorted).gpu_memory >= p.gpu_memory
         THEN <<Head(sorted)>> \o InsertByMemory(Tail(sorted), p)
         ELSE <<p>> \o sorted

RECURSIVE SortFrom(_, _)
SortFrom(sorted, rest) ==
    IF rest = <<>> THEN sorted
    ELSE SortFrom(InsertByMemory(sorted, Head(rest)), Tail(rest))

SortByMemoryDesc(processes) == SortFrom(<<>>, processes)

get_gpu_processes(dev) == SortByMemoryDesc(MergeProcesses(dev))

-----------------------------------------------------------------------------
(***************************************************************************)
(* Snapshot builder: GpuMonitor::get_gpu_info / get_all_gpu_info           *)
(***************************************************************************)

\* Result<T, Error>
Ok(v)  == [ok |-> TRUE,  val |-> v,    err |-> "none"]
Err(e) == [ok |-> FALSE, val |-> <<>>, err |-> e]

\* Option<T>
None    == <<>>
Some(v) == <<v>>

\* The NVML queries get_gpu_info makes for one device.
FatalQueries ==
    {"device_by_index", "name", "uuid", "pci_info", "sys_driver_version",
     "memory_info", "utilization_rates"}
FieldQueries ==
    {"sys_cuda_driver_version", "power_management_limit",
     "power_management_limit_constraints", "encoder_utilization",
     "decoder_utilization", "temperature", "power_usage", "fan_speed",
     "clock_graphics", "clock_memory", "clock_sm"}
ProcessQueries ==
    {"running_compute_processes", "running_graphics_processes"}
Queries == FatalQueries \cup FieldQueries \cup ProcessQueries

\* What the library reports, when the query succeeds, for the fields whose
\* value is the same in every answer (each differs from the field's default).
Reported ==
    [cuda_driver_version |-> 12020,
     power_limit_mw      |-> 250000,
     power_limit_max_mw  |-> 300000,
     encoder_utilization |-> 5,
     decoder_utilization |-> 6,
     temperature         |-> 61,
     power_usage         |-> 150000,
     fan_speed           |-> 30,
     clock_graphics      |-> 1800,
     clock_memory        |-> 7000,
     clock_sm            |-> 1750]

\* MemoryInfo::usage_percent() as u64: 0.0 when total is 0, else
\* used / total * 100, truncated toward zero by the cast.
usage_percent(memory) ==
    IF memory.total = 0 THEN 0
    ELSE (memory.used * 100) \div memory.total

\* sys_cuda_driver_version().ok().map(|v| format!("{}.{}", v/1000, (v%1000)/10))
CudaVersion(dev) ==
    IF "sys_cuda_driver_version" \in dev.fail THEN None
    ELSE Some(<<Reported.cuda_driver_version \div 1000,
                (Reported.cuda_driver_version % 1000) \div 10>>)

\* power_management_limit().unwrap_or(0) / 1000
PowerLimit(dev) ==
    (IF "power_management_limit" \in dev.fail THEN 0 ELSE Reported.power_limit_mw)
        \div 1000

\* power_management_limit_constraints().map(|c| c.max_limit / 1000)
\*     .unwrap_or(power_limit)
PowerLimitMax(dev) ==
    IF "power_management_limit_constraints" \in dev.fail THEN PowerLimit(dev)
    ELSE Reported.power_limit_max_mw \div 1000

\* q().unwrap_or(0)
UnwrapOr0(dev, q, v) == IF q \in dev.fail THEN 0 ELSE v

Metrics(dev) ==
    [gpu_utilization     |-> dev.gpu,
     memory_utilization  |-> dev.memory,
     encoder_utilization |-> UnwrapOr0(dev, "encoder_utilization", Reported.encoder_utilization),
     decoder_utilization |-> UnwrapOr0(dev, "decoder_utilization", Reported.decoder_utilization),
     temperature         |-> UnwrapOr0(dev, "temperature", Reported.temperature),
     power_usage         |-> UnwrapOr0(dev, "power_usage", Reported.power_usage),
     fan_speed           |-> IF "fan_speed" \in dev.fail THEN None
                             ELSE Some(Reported.fan_speed),
     clock_graphics      |-> UnwrapOr0(dev, "clock_graphics", Reported.clock_graphics),
     clock_memory        |-> UnwrapOr0(dev, "clock_memory", Reported.clock_memory),
     clock_sm            |-> UnwrapOr0(dev, "clock_sm", Reported.clock_sm)]

\* get_gpu_info with the temperature query followed by "?" as well.
get_gpu_info_strict(index, dev) ==
    IF dev.fail \cap (FatalQueries \cup {"temperature"}) # {} THEN Err("Nvml")
    ELSE Ok([device    |-> [index           |-> index,
                            cuda_version    |-> CudaVersion(dev),
                            power_limit     |-> PowerLimit(dev),
                            power_limit_max |-> PowerLimitMax(dev)],
             metrics   |-> Metrics(dev),
             memory    |-> [total |-> dev.total, used |-> dev.used],
             processes |-> get_gpu_processes(dev)])

\* get_gpu_info(index): every query followed by "?" returns the NVML error
\* of the first one that fails; the others fall back to a default.
get_gpu_info(index, dev) ==
    IF dev.fail \cap FatalQueries # {} THEN Err("Nvml")
    ELSE Ok([device    |-> [index           |-> index,
                            cuda_version    |-> CudaVersion(dev),
                            power_limit     |-> PowerLimit(dev),
                            power_limit_max |-> PowerLimitMax(dev)],
             metrics   |-> Metrics(dev),
             memory    |-> [total |-> dev.total, used |-> dev.used],
             processes |-> get_gpu_processes(dev)])

\* The loop "for i in 0..count { gpus.push(self.get_gpu_info(i)?) }":
\* device i is answered by devs[i + 1].
RECURSIVE CollectGpus(_, _, _)
CollectGpus(acc, devs, i) ==
    IF i >= Len(devs) THEN Ok(acc)
    ELSE LET r == get_gpu_info(i, devs[i + 1])
         IN  IF r.ok THEN CollectGpus(Append(acc, r.val), devs, i + 1)
             ELSE Err(r.err)

\* get_all_gpu_info without the test for a count of zero.
get_all_gpu_info_unchecked(lib) ==
    IF ~lib.count_ok THEN Err("Nvml")
    ELSE CollectGpus(<<>>, lib.devs, 0)

\* get_all_gpu_info
get_all_gpu_info(lib) ==
    IF ~lib.count_ok THEN Err("Nvml")
    ELSE IF lib.count = 0 THEN Err("NoDevices")
    ELSE CollectGpus(<<>>, lib.devs, 0)

-----------------------------------------------------------------------------
(***************************************************************************)
(* TUI application: App::new, App::run, App::refresh_data,                 *)
(* App::handle_events (app.rs).  Time is counted in seconds.               *)
(***************************************************************************)

\* "Keep last 60 samples"
HistoryCap == 60
\* "let visible_rows = 10"
VisibleRows == 10
\* "Instant::now() - Duration::from_secs(10)"
SeedBack == 10

\* Bounds of the exploration.
MaxRefresh == 2      \* refresh attempts explored in one run
MaxTime    == 2      \* the clock stops advancing here
IterCap    == 2      \* iter counts 0, 1, "2 or more"

\* --interval values (seconds): every iteration, the default one second,
\* exactly the seeded ten seconds, and more than ten seconds.
Intervals == {0, 1, SeedBack, SeedBack + 1}

\* ---- refresh_data ----

\* GrowBy that also drops the series beyond the current device count.
GrowByOrShrink(history, gs, h) ==
    IF Len(gs) < Len(history) THEN SubSeq(h, 1, Len(gs))
    ELSE h \o [k \in 1..(Len(gs) - Len(history)) |-> <<>>]

\* "while self.gpu_history.len() < self.gpus.len() { push(Vec::new()) }",
\* applied to both collections under the one guard on gpu_history.
GrowBy(history, gs, h) ==
    h \o [k \in 1..Max(0, Len(gs) - Len(history)) |-> <<>>]

\* PushSample without the eviction.
PushSampleUnbounded(series, v) == Append(series, v)

\* PushSample evicting the newest stored sample instead of the oldest.
PushSampleDropNewest(series, v) ==
    IF Len(series) >= HistoryCap
    THEN SubSeq(series, 1, Len(series) - 1) \o <<v>>
    ELSE Append(series, v)

\* series.push(v); if series.len() > 60 { series.remove(0) }
PushSample(series, v) ==
    LET pushed == Append(series, v)
    IN  IF Len(pushed) > HistoryCap THEN Tail(pushed) ELSE pushed

\* UpdateGpuHistory giving every series the sample of the first device.
UpdateGpuHistoryFirstDevice(history, gs) ==
    LET grown == GrowBy(history, gs, history)
    IN  [i \in 1..Len(grown) |->
            IF i <= Len(gs)
            THEN PushSample(grown[i], gs[1].metrics.gpu_utilization)
            ELSE grown[i]]

\* The loop "for (i, gpu) in self.gpus.iter().enumerate()" on the
\* utilization collection and on the memory collection.
UpdateGpuHistory(history, gs) ==
    LET grown == GrowBy(history, gs, history)
    IN  [i \in 1..Len(grown) |->
            IF i <= Len(gs)
            THEN PushSample(grown[i], gs[i].metrics.gpu_utilization)
            ELSE grown[i]]

UpdateMemoryHistory(gpuhist, memhist, gs) ==
    LET grown == GrowBy(gpuhist, gs, memhist)
    IN  [i \in 1..Len(grown) |->
            IF i <= Len(gs)
            THEN PushSample(grown[i], usage_percent(gs[i].memory))
            ELSE grown[i]]

\* "(max_processes - visible_rows) as u16"
MaxScroll(max_processes) == (max_processes - VisibleRows) % 65536

\* The longest process list of a snapshot set.
RECURSIVE LongestList(_)
LongestList(gs) ==
    IF gs = <<>> THEN 0
    ELSE LET rest == LongestList(Tail(gs))
         IN  IF Len(Head(gs).processes) >= rest
             THEN Len(Head(gs).processes) ELSE rest

\* ValidateScroll taking the longest process list of all devices as reference.
ValidateScrollLongestList(scroll, gs) ==
    IF gs # <<>>
    THEN IF LongestList(gs) > VisibleRows
         THEN IF scroll > (LongestList(gs) - VisibleRows) % 65536
              THEN (LongestList(gs) - VisibleRows) % 65536
              ELSE scroll
         ELSE 0
    ELSE scroll

\* ValidateScroll without the reset for a list that fits the visible rows.
ValidateScrollNoReset(scroll, gs) ==
    IF gs # <<>> /\ Len(gs[1].processes) > VisibleRows
                 /\ scroll > MaxScroll(Len(gs[1].processes))
    THEN MaxScroll(Len(gs[1].processes))
    ELSE scroll

\* "Validate scroll position after data refresh"
ValidateScroll(scroll, gs) ==
    IF gs # <<>>
    THEN LET max_processes == Len(gs[1].processes)
         IN  IF max_processes > VisibleRows
             THEN IF scroll > MaxScroll(max_processes)
                  THEN MaxScroll(max_processes)
                  ELSE scroll
             ELSE 0
    ELSE scroll

\* ---- handle_events ----

KeyCodes == {"q", "Esc", "Up", "k", "Down", "j", "Other"}
KeyEvent(kind, code) == [type |-> "Key", kind |-> kind, code |-> code]
NoEvent == [type |-> "None", kind |-> "None", code |-> "None"]
Events ==
    {KeyEvent("Press", c) : c \in KeyCodes}
    \cup {KeyEvent(k, c) : k \in {"Repeat", "Release"}, c \in {"q", "Up", "Down"}}
    \cup {[type |-> "Resize", kind |-> "None", code |-> "None"]}

\* IsPress without the test of the event kind.
IsPressAnyKind(ev, codes) ==
    ev.type = "Key" /\ ev.code \in codes

\* Event::Key(key_event) if key_event.kind == KeyEventKind::Press, and the
\* match on key_event.code.
IsPress(ev, codes) ==
    ev.type = "Key" /\ ev.kind = "Press" /\ ev.code \in codes

\* ExitAfter with a quit arm for 'q' only.
ExitAfterQOnly(ev, ex) == IF IsPress(ev, {"q"}) THEN TRUE ELSE ex

\* KeyCode::Char('q') | KeyCode::Esc => self.exit = true
ExitAfter(ev, ex) == IF IsPress(ev, {"q", "Esc"}) THEN TRUE ELSE ex

\* ScrollAfter with a Down arm that always advances.
ScrollAfterUnbounded(ev, scroll, gs) ==
    IF IsPress(ev, {"Up", "k"})
    THEN IF scroll = 0 THEN 0 ELSE scroll - 1
    ELSE IF IsPress(ev, {"Down", "j"})
    THEN (scroll + 1) % 65536
    ELSE scroll

\* The Up | 'k' arm (saturating_sub) and the Down | 'j' arm.
ScrollAfter(ev, scroll, gs) ==
    IF IsPress(ev, {"Up", "k"})
    THEN IF scroll = 0 THEN 0 ELSE scroll - 1
    ELSE IF IsPress(ev, {"Down", "j"})
    THEN LET max_processes == IF gs # <<>> THEN Len(gs[1].processes) ELSE 0
         IN  IF max_processes > VisibleRows
                /\ scroll < MaxScroll(max_processes)
             THEN (scroll + 1) % 65536
             ELSE scroll
    ELSE scroll

-----------------------------------------------------------------------------
(***************************************************************************)
(* Answers of the NVML library explored by the TUI runs                    *)
(***************************************************************************)

DevAnswer(fail, gpu, total, used, compute, graphics) ==
    [fail |-> fail, gpu |-> gpu, memory |-> gpu \div 2,
     total |-> total, used |-> used,
     compute |-> compute, graphics |-> graphics]

\* n compute processes with PIDs 1..n; memory values repeat, so there are ties.
ProcList(n) ==
    [k \in 1..n |-> [pid |-> k, used_gpu_memory |-> Used(k % 3)]]

\* The first device: (utilization, total bytes, used bytes, process count),
\* the counts lying below, just above and well above the visible rows; one
\* answer whose two process queries fail, one whose graphics query alone
\* fails, one whose compute query alone fails while the graphics query
\* reports PID 4 in two entries; one whose utilization query fails.
FirstDevAnswers ==
    {DevAnswer({}, s[1], s[2], s[3], ProcList(s[4]), <<>>) :
        s \in {<<42, 8, 2, 15>>, <<7, 0, 0, 5>>, <<42, 8, 3, 20>>,
               <<7, 3, 1, 11>>}}
    \cup {DevAnswer(ProcessQueries, 42, 8, 2, ProcList(15), ProcList(2))}
    \cup {DevAnswer({"running_graphics_processes"}, 7, 3, 1,
                    ProcList(3), ProcList(2))}
    \cup {DevAnswer({"running_compute_processes"}, 7, 3, 1, ProcList(3),
                    <<[pid |-> 4, used_gpu_memory |-> Used(1)],
                      [pid |-> 5, used_gpu_memory |-> Unavailable],
                      [pid |-> 4, used_gpu_memory |-> Used(2)]>>)}

FirstDevFailing ==
    DevAnswer({"utilization_rates"}, 42, 8, 2, ProcList(15), <<>>)

\* The second device, with more processes than any first device.
SecondDevAnswer ==
    DevAnswer({"temperature"}, 99, 4, 3, ProcList(20), <<>>)

SecondDevFailing ==
    DevAnswer({"memory_info"}, 99, 4, 3, ProcList(20), <<>>)

EnumError == [count_ok |-> FALSE, count |-> 0, devs |-> <<>>]
DevicesAnswer(devs) == [count_ok |-> TRUE, count |-> Len(devs), devs |-> devs]

TuiAnswers ==
    {EnumError, DevicesAnswer(<<>>), DevicesAnswer(<<FirstDevFailing>>)}
    \cup {DevicesAnswer(<<d>>) : d \in FirstDevAnswers}
    \cup {DevicesAnswer(<<d, SecondDevAnswer>>) : d \in FirstDevAnswers}
    \cup {DevicesAnswer(<<d, SecondDevFailing>>) : d \in FirstDevAnswers}

\* monitor.get_all_gpu_info() on each of these answers.
TuiCalls == {[lib |-> lib, r |-> get_all_gpu_info(lib)] : lib \in TuiAnswers}

NotCalled == [ok |-> FALSE, val |-> <<>>, err |-> "not called"]

MaxThreads == 2      \* threads running GUI commands
Threads == 1..MaxThreads

\* The GUI process before main() has built its state.
GuiOff ==
    /\ monitor = None
    /\ inits = 0
    /\ lock_owner = 0
    /\ tpc = [t \in Threads |-> "idle"]
    /\ cmd = [t \in Threads |-> "none"]
    /\ resp = [t \in Threads |-> NotCalled]

-----------------------------------------------------------------------------
(***************************************************************************)
(* The TUI run: run_tui -> App::new(interval).run(..)                      *)
(***************************************************************************)

\* App::new, and the clock at that moment.
InitNew ==
    /\ exit = FALSE
    /\ interval \in Intervals
    /\ gpus = <<>>
    /\ gpu_history = <<>>
    /\ memory_history = <<>>
    /\ now = 0
    /\ last_refresh = 0 - SeedBack
    /\ process_scroll = 0
    /\ pc = "loop"
    /\ result = "none"
    /\ iter = 0
    /\ refreshed = FALSE
    /\ ticks = 0
    /\ last_event = NoEvent
    /\ nvml = EnumError
    /\ ret = NotCalled
    /\ GuiOff

Init == InitNew

BeginIteration ==
    /\ pc = "loop"
    /\ ~exit
    /\ iter' = Min(iter + 1, IterCap)
    /\ last_event' = NoEvent

\* "if elapsed >= interval { self.refresh_data(monitor)?; last_refresh = now }"
\* with refresh_data returning Ok.
RefreshOk ==
    /\ BeginIteration
    /\ now - last_refresh >= interval
    /\ ticks < MaxRefresh
    /\ \E call \in TuiCalls :
        /\ call.r.ok
        /\ nvml' = call.lib
        /\ gpus' = call.r.val
        /\ gpu_history' = UpdateGpuHistory(gpu_history, call.r.val)
        /\ memory_history' =
               UpdateMemoryHistory(gpu_history, memory_history, call.r.val)
        /\ process_scroll' = ValidateScroll(process_scroll, call.r.val)
    /\ last_refresh' = now
    /\ refreshed' = TRUE
    /\ ticks' = ticks + 1
    /\ pc' = "draw"
    /\ UNCHANGED <<exit, interval, result, now, ret, guivars>>

\* RefreshFail swallowing the error: the loop goes on to draw.
RefreshFailIgnored ==
    /\ BeginIteration
    /\ now - last_refresh >= interval
    /\ ticks < MaxRefresh
    /\ \E call \in TuiCalls :
        /\ ~call.r.ok
        /\ nvml' = call.lib
    /\ refreshed' = FALSE
    /\ ticks' = ticks + 1
    /\ pc' = "draw"
    /\ UNCHANGED <<appvars, result, now, ret, guivars>>

\* The same tick with get_all_gpu_info returning Err: "?" leaves run at once,
\* before self.gpus is assigned.
RefreshFail ==
    /\ BeginIteration
    /\ now - last_refresh >= interval
    /\ ticks < MaxRefresh
    /\ \E call \in TuiCalls :
        /\ ~call.r.ok
        /\ nvml' = call.lib
        /\ result' = call.r.err
    /\ refreshed' = FALSE
    /\ ticks' = ticks + 1
    /\ pc' = "returned"
    /\ UNCHANGED <<appvars, now, ret, guivars>>

\* SkipRefresh taken whether or not the interval has passed.
SkipRefreshAlways ==
    /\ BeginIteration
    /\ refreshed' = FALSE
    /\ pc' = "draw"
    /\ UNCHANGED <<appvars, result, now, ticks, nvml, ret, guivars>>

\* The interval has not passed: no refresh in this iteration.
SkipRefresh ==
    /\ BeginIteration
    /\ now - last_refresh < interval
    /\ refreshed' = FALSE
    /\ pc' = "draw"
    /\ UNCHANGED <<appvars, result, now, ticks, nvml, ret, guivars>>

\* terminal.draw(|frame| ui::draw(frame, self)): reads the App, changes nothing.
Draw ==
    /\ pc = "draw"
    /\ pc' = "poll"
    /\ UNCHANGED <<appvars, result, now, iter, refreshed, ticks, last_event,
                   nvml, ret,
                   guivars>>

\* event::poll(100ms) returns false: no event within the wait.
PollTimeout ==
    /\ pc = "poll"
    /\ now < MaxTime
    /\ now' = now + 1
    /\ pc' = "loop"
    /\ UNCHANGED <<appvars, result, iter, refreshed, ticks, last_event,
                   nvml, ret,
                   guivars>>

\* event::poll returns true and handle_events reads the event.
HandleEvents ==
    /\ pc = "poll"
    /\ \E ev \in Events :
        /\ last_event' = ev
        /\ exit' = ExitAfter(ev, exit)
        /\ process_scroll' = ScrollAfter(ev, process_scroll, gpus)
    /\ pc' = "loop"
    /\ UNCHANGED <<interval, gpus, gpu_history, memory_history, last_refresh,
                   result, now, iter, refreshed, ticks, nvml, ret,
                   guivars>>

\* terminal.draw, event::poll or event::read returns an I/O error.
IoFail ==
    /\ pc \in {"draw", "poll"}
    /\ pc' = "returned"
    /\ result' = "Io"
    /\ UNCHANGED <<appvars, now, iter, refreshed, ticks, last_event, nvml, ret,
                   guivars>>

\* "while !self.exit" is false: run returns Ok(()).
LoopExit ==
    /\ pc = "loop"
    /\ exit
    /\ pc' = "returned"
    /\ result' = "Ok"
    /\ UNCHANGED <<appvars, now, iter, refreshed, ticks, last_event, nvml, ret,
                   guivars>>

Next ==
    \/ RefreshOk
    \/ RefreshFail
    \/ SkipRefresh
    \/ Draw
    \/ PollTimeout
    \/ HandleEvents
    \/ IoFail
    \/ LoopExit

Spec == Init /\ [][Next]_vars

-----------------------------------------------------------------------------
(***************************************************************************)
(* A run that has been going on: the state at the top of the loop after    *)
(* HistoryCap - 1 refreshes on one device, whose utilization rose by one   *)
(* per sample while its used memory fell by one percent.                   *)
(***************************************************************************)

WarmLen == HistoryCap - 1

WarmLib ==
    DevicesAnswer(<<DevAnswer({}, WarmLen, 100, 100 - WarmLen,
                              ProcList(15), <<>>)>>)

InitWarm ==
    /\ exit = FALSE
    /\ interval \in {0, 1}
    /\ gpus = get_all_gpu_info(WarmLib).val
    /\ gpu_history = << [k \in 1..WarmLen |-> k] >>
    /\ memory_history = << [k \in 1..WarmLen |-> 100 - k] >>
    /\ now = 0
    /\ last_refresh = 0
    /\ process_scroll \in {0, 5}
    /\ pc = "loop"
    /\ result = "none"
    /\ iter = IterCap
    /\ refreshed = FALSE
    /\ ticks = 0
    /\ last_event = NoEvent
    /\ nvml = WarmLib
    /\ ret = NotCalled
    /\ GuiOff

InitLong == InitNew \/ InitWarm

SpecLong == InitLong /\ [][Next]_vars

-----------------------------------------------------------------------------
(***************************************************************************)
(* Single calls into gpu-monitor-core                                      *)
(***************************************************************************)

\* Bounds of the process lists and of the library answers.
MaxCompute  == 2     \* entries in the compute-process list
MaxGraphics == 2     \* entries in the graphics-process list
MaxDevices  == 2     \* devices the library enumerates
MaxFail     == 2     \* failing queries in one library answer

Pids        == {1, 2, 3}
MemValues   == {Unavailable, Used(1), Used(2)}
ProcEntries == [pid : Pids, used_gpu_memory : MemValues]

AppIdle ==
    /\ exit = FALSE
    /\ interval = 1
    /\ gpus = <<>>
    /\ gpu_history = <<>>
    /\ memory_history = <<>>
    /\ now = 0
    /\ last_refresh = 0 - SeedBack
    /\ process_scroll = 0
    /\ pc = "call"
    /\ result = "none"
    /\ iter = 0
    /\ refreshed = FALSE
    /\ ticks = 0
    /\ last_event = NoEvent
    /\ GuiOff

\* get_gpu_processes on one device, for every pair of reported lists and
\* every outcome of the two queries (a failing query reports no list).
InitMerge ==
    /\ AppIdle
    /\ \E c \in SeqUpTo(ProcEntries, MaxCompute),
          g \in SeqUpTo(ProcEntries, MaxGraphics),
          f \in SUBSET ProcessQueries :
            /\ "running_compute_processes" \in f => c = <<>>
            /\ "running_graphics_processes" \in f => g = <<>>
            /\ nvml = DevicesAnswer(<<DevAnswer(f, 42, 8, 2, c, g)>>)
    /\ ret = NotCalled

CallGetGpuProcesses ==
    /\ pc = "call"
    /\ ret = NotCalled
    /\ ret' = Ok(get_gpu_processes(nvml.devs[1]))
    /\ pc' = "returned"
    /\ UNCHANGED <<appvars, result, now, iter, refreshed, ticks, last_event,
                   nvml,
                   guivars>>

NextMerge == CallGetGpuProcesses

SpecMerge == InitMerge /\ [][NextMerge]_vars

\* All subsets of S with at most k elements.
RECURSIVE SubsetsUpTo(_, _)
SubsetsUpTo(S, k) ==
    IF k = 0 THEN {{}}
    ELSE LET P == SubsetsUpTo(S, k - 1)
         IN  P \cup {F \cup {x} : F \in P, x \in S}

\* The failing queries of device i among the failures F of an answer.
FailOf(F, i) == {q \in Queries : <<i, q>> \in F}

\* get_all_gpu_info for every enumeration outcome and every choice of at
\* most MaxFail failing (device, query) pairs.
InitInfo ==
    /\ AppIdle
    /\ \/ nvml = EnumError
       \/ \E n \in 0..MaxDevices :
            \E F \in SubsetsUpTo((0..(n - 1)) \X Queries, MaxFail) :
                nvml = DevicesAnswer([i \in 1..n |->
                            DevAnswer(FailOf(F, i - 1), 40 + i, 8, 2 * i,
                                      ProcList(2),
                                      <<[pid |-> 2, used_gpu_memory |-> Used(5)],
                                        [pid |-> 3, used_gpu_memory |-> Unavailable]>>)])
    /\ ret = NotCalled

CallGetAllGpuInfo ==
    /\ pc = "call"
    /\ ret = NotCalled
    /\ ret' = get_all_gpu_info(nvml)
    /\ pc' = "returned"
    /\ UNCHANGED <<appvars, result, now, iter, refreshed, ticks, last_event,
                   nvml,
                   guivars>>

NextInfo == CallGetAllGpuInfo

SpecInfo == InitInfo /\ [][NextInfo]_vars

-----------------------------------------------------------------------------
(***************************************************************************)
(* The GUI commands: AppState, get_gpu_info, get_gpu_count,                *)
(* is_gpu_available (commands.rs), registered by main (main.rs).  Each     *)
(* thread runs one command at a time; the code run under the guard does    *)
(* not panic, so the Mutex is never poisoned and lock() returns Ok.        *)
(***************************************************************************)

Commands == {"get_gpu_info", "get_gpu_count", "is_gpu_available"}

\* The monitor a successful GpuMonitor::new() returns.
Handle == "GpuMonitor"

NotInitializedInfo ==
    "GPU monitor not initialized. Make sure NVIDIA drivers are installed."
NotInitializedCount == "GPU monitor not initialized"

\* GpuMonitor::device_count: Ok(self.nvml.device_count()?)
device_count(lib) ==
    IF lib.count_ok THEN Ok(lib.count) ELSE Err("Nvml")

\* What the library answers to the queries of an initialised monitor.
GuiAnswers ==
    {EnumError, DevicesAnswer(<<>>), DevicesAnswer(<<SecondDevAnswer>>)}

\* The match on the guarded Option in each command; a command returning
\* bool answers Ok(bool), the IPC call resolving with that value.
CommandBody(c, m, lib) ==
    IF c = "get_gpu_info"
    THEN IF m # None THEN get_all_gpu_info(lib) ELSE Err(NotInitializedInfo)
    ELSE IF c = "get_gpu_count"
    THEN IF m # None THEN device_count(lib) ELSE Err(NotInitializedCount)
    ELSE Ok(m # None)

\* AppState::default(): monitor: Mutex::new(GpuMonitor::new().ok())
AppStateDefault ==
    /\ inits = 0
    /\ \E init_ok \in BOOLEAN :
        monitor' = IF init_ok THEN Some(Handle) ELSE None
    /\ inits' = inits + 1
    /\ UNCHANGED <<appvars, runvars, callvars, lock_owner, tpc, cmd, resp>>

\* The frontend invokes a command on thread t.
Invoke(t) ==
    /\ inits > 0
    /\ tpc[t] = "idle"
    /\ \E c \in Commands : cmd' = [cmd EXCEPT ![t] = c]
    /\ resp' = [resp EXCEPT ![t] = NotCalled]
    /\ tpc' = [tpc EXCEPT ![t] = "lock"]
    /\ UNCHANGED <<appvars, runvars, callvars, monitor, inits, lock_owner>>

\* state.monitor.lock(): blocks while another thread holds the guard.
Lock(t) ==
    /\ tpc[t] = "lock"
    /\ lock_owner = 0
    /\ lock_owner' = t
    /\ tpc' = [tpc EXCEPT ![t] = "locked"]
    /\ UNCHANGED <<appvars, runvars, callvars, monitor, inits, cmd, resp>>

\* Answer calling GpuMonitor::new() again when the Option is None.
AnswerReinit(t) ==
    /\ tpc[t] = "locked"
    /\ \E lib \in GuiAnswers, init_ok \in BOOLEAN :
        LET m == IF monitor # None THEN monitor
                 ELSE IF init_ok THEN Some(Handle) ELSE None
        IN  /\ monitor' = m
            /\ inits' = IF monitor # None THEN inits ELSE Min(inits + 1, 3)
            /\ resp' = [resp EXCEPT ![t] = CommandBody(cmd[t], m, lib)]
    /\ tpc' = [tpc EXCEPT ![t] = "answered"]
    /\ UNCHANGED <<appvars, runvars, callvars, lock_owner, cmd>>

\* The body of the command, run under the guard.
Answer(t) ==
    /\ tpc[t] = "locked"
    /\ \E lib \in GuiAnswers :
        resp' = [resp EXCEPT ![t] = CommandBody(cmd[t], monitor, lib)]
    /\ tpc' = [tpc EXCEPT ![t] = "answered"]
    /\ UNCHANGED <<appvars, runvars, callvars, monitor, inits, lock_owner,
                   cmd>>

\* The command returns: the guard is dropped and the response delivered.
Return(t) ==
    /\ tpc[t] = "answered"
    /\ lock_owner = t
    /\ lock_owner' = 0
    /\ tpc' = [tpc EXCEPT ![t] = "idle"]
    /\ UNCHANGED <<appvars, runvars, callvars, monitor, inits, cmd, resp>>

InitGui ==
    /\ AppIdle
    /\ nvml = EnumError
    /\ ret = NotCalled

NextGui ==
    \/ AppStateDefault
    \/ \E t \in Threads : Invoke(t)
    \/ \E t \in Threads : Lock(t)
    \/ \E t \in Threads : Answer(t)
    \/ \E t \in Threads : Return(t)

SpecGui == InitGui /\ [][NextGui]_vars

-----------------------------------------------------------------------------
(***************************************************************************)
(* Properties                                                              *)
(***************************************************************************)

\* Number of processes of the first device of the current snapshot set.
RefCount == IF gpus = <<>> THEN 0 ELSE Len(gpus[1].processes)

\* A step of App::run that completed a refresh.
RefreshedStep == pc = "loop" /\ pc' = "draw" /\ ticks' = ticks + 1

\* C1: whenever the renderer runs, the scroll offset lies between 0 and
\* max(0, N - 10), N being the process count of the first device of the
\* current snapshot set (0 before the first refresh).
C1_ScrollInRange ==
    pc = "draw" =>
        /\ 0 <= process_scroll
        /\ process_scroll <= Max(0, RefCount - VisibleRows)

\* The renderer sees an offset that a refresh has just clamped from above:
\* the list shrank to 15 processes under an offset scrolled beyond 5.
C1_Witness ==
    /\ pc = "draw"
    /\ refreshed
    /\ ticks = 2
    /\ RefCount = 15
    /\ process_scroll = 5

\* C2: every utilization series and every memory series has at most 60
\* samples.
C2_HistoryBounded ==
    /\ \A i \in 1..Len(gpu_history) : Len(gpu_history[i]) <= HistoryCap
    /\ \A i \in 1..Len(memory_history) : Len(memory_history[i]) <= HistoryCap

\* A refresh has hit full series: both still hold exactly 60 samples.
C2_Witness ==
    /\ pc = "draw"
    /\ refreshed
    /\ ticks = 2
    /\ Len(gpu_history) = 1
    /\ Len(gpu_history[1]) = HistoryCap
    /\ Len(memory_history[1]) = HistoryCap

\* The series as C3 expects it after one more sample v.
AppendedFifo(old, v) ==
    IF Len(old) < HistoryCap THEN old \o <<v>> ELSE Tail(old) \o <<v>>

SeriesAt(history, i) == IF i <= Len(history) THEN history[i] ELSE <<>>

\* Memory-usage percent of a device answer: 0 when total is 0.
AnswerPercent(d) == IF d.total = 0 THEN 0 ELSE (d.used * 100) \div d.total

\* C3: a successful refresh appends to the two series of every device in
\* the new snapshot set exactly one sample, the utilization and the
\* memory-usage percent the library reported for that device; a series
\* of fewer than 60 samples is extended, a series of 60 loses its first
\* sample.
C3_AppendOne ==
    [][RefreshedStep =>
        \A i \in 1..Len(gpus') :
            /\ gpu_history'[i] =
                 AppendedFifo(SeriesAt(gpu_history, i), nvml'.devs[i].gpu)
            /\ memory_history'[i] =
                 AppendedFifo(SeriesAt(memory_history, i),
                              AnswerPercent(nvml'.devs[i]))]_vars

\* Two refreshes on a run with 59 samples: the second one evicted the oldest
\* sample (1) and appended utilization 42 with 25 percent memory.
C3_Witness ==
    /\ pc = "draw"
    /\ refreshed
    /\ Len(gpu_history[1]) = HistoryCap
    /\ gpu_history[1][1] = 2
    /\ gpu_history[1][HistoryCap] = 42
    /\ memory_history[1][1] = 98
    /\ memory_history[1][HistoryCap] = 25

\* C4 (as claimed): for every interval, the first iteration of the loop
\* has refreshed by the time it renders.
C4_FirstIterationRefreshes ==
    (pc = "draw" /\ iter = 1) => refreshed

\* The call under test has returned.
Returned == pc = "returned" /\ ret # NotCalled

\* The queries behind the fields C5 lists: device and memory utilization
\* (one query), encoder, decoder, temperature, power, fan, clocks, limits.
ClaimedFieldQueries ==
    {"utilization_rates", "encoder_utilization", "decoder_utilization",
     "temperature", "power_usage", "fan_speed", "clock_graphics",
     "clock_memory", "clock_sm", "power_management_limit",
     "power_management_limit_constraints"}

DegradableQueries == ClaimedFieldQueries \ {"utilization_rates"}

\* Every failing query of the answer lies in Q.
FailuresWithin(Q) ==
    \A i \in 1..Len(nvml.devs) : nvml.devs[i].fail \subseteq Q

\* Field f of a snapshot holds v when query q succeeded and dflt when not.
FieldIs(d, q, field, v, dflt) ==
    field = (IF q \in d.fail THEN dflt ELSE v)

\* Every field of snapshot g behind a degradable query holds what the
\* library reported, or its default when the query failed.
DefaultsTaken(g, d) ==
    LET R     == Reported
        limit == IF "power_management_limit" \in d.fail THEN 0
                 ELSE R.power_limit_mw \div 1000
    IN  /\ FieldIs(d, "encoder_utilization", g.metrics.encoder_utilization,
                   R.encoder_utilization, 0)
        /\ FieldIs(d, "decoder_utilization", g.metrics.decoder_utilization,
                   R.decoder_utilization, 0)
        /\ FieldIs(d, "temperature", g.metrics.temperature, R.temperature, 0)
        /\ FieldIs(d, "power_usage", g.metrics.power_usage, R.power_usage, 0)
        /\ FieldIs(d, "fan_speed", g.metrics.fan_speed,
                   Some(R.fan_speed), None)
        /\ FieldIs(d, "clock_graphics", g.metrics.clock_graphics,
                   R.clock_graphics, 0)
        /\ FieldIs(d, "clock_memory", g.metrics.clock_memory,
                   R.clock_memory, 0)
        /\ FieldIs(d, "clock_sm", g.metrics.clock_sm, R.clock_sm, 0)
        /\ g.device.power_limit = limit
        /\ FieldIs(d, "power_management_limit_constraints",
                   g.device.power_limit_max,
                   R.power_limit_max_mw \div 1000, limit)
        /\ g.metrics.gpu_utilization = d.gpu
        /\ g.metrics.memory_utilization = d.memory

AllSnapshotsBuilt ==
    /\ ret.ok
    /\ Len(ret.val) = nvml.count
    /\ \A i \in 1..Len(ret.val) : DefaultsTaken(ret.val[i], nvml.devs[i])

MergeDev == nvml.devs[1]
EffCompute ==
    IF "running_compute_processes" \in MergeDev.fail THEN <<>>
    ELSE MergeDev.compute
EffGraphics ==
    IF "running_graphics_processes" \in MergeDev.fail THEN <<>>
    ELSE MergeDev.graphics

Indices(list, pid) == {k \in 1..Len(list) : list[k].pid = pid}
Reports(list, pid) == Cardinality(Indices(list, pid))
MemoryOf(entry) ==
    IF entry.used_gpu_memory = Unavailable THEN 0
    ELSE entry.used_gpu_memory.bytes

\* C6 (as claimed): for any two reported lists, every reported PID has
\* exactly one record in the merged list (and no other PID has one).
C6_EachPidOnce ==
    Returned =>
        \A p \in Pids :
            Reports(ret.val, p) =
                (IF Reports(EffCompute, p) + Reports(EffGraphics, p) > 0
                 THEN 1 ELSE 0)

\* C7: a PID reported once by the compute query with memory c and once by
\* the graphics query with memory g (unavailable counting as 0) has exactly
\* one record, tagged Mixed, whose memory is max(c, g).
C7_MixedTakesMax ==
    Returned =>
        \A p \in Pids :
            (Reports(EffCompute, p) = 1 /\ Reports(EffGraphics, p) = 1) =>
                LET c == MemoryOf(EffCompute[CHOOSE k \in Indices(EffCompute, p) : TRUE])
                    g == MemoryOf(EffGraphics[CHOOSE k \in Indices(EffGraphics, p) : TRUE])
                IN  /\ Reports(ret.val, p) = 1
                    /\ \A k \in Indices(ret.val, p) :
                        /\ ret.val[k].process_type = "Mixed"
                        /\ ret.val[k].gpu_memory = Max(c, g)

\* PID 1 was reported with 1 byte by the compute query and 2 bytes by the
\* graphics query; its only record is Mixed with 2 bytes, not 3.
C7_Witness ==
    /\ Returned
    /\ EffCompute = <<[pid |-> 1, used_gpu_memory |-> Used(1)]>>
    /\ EffGraphics = <<[pid |-> 2, used_gpu_memory |-> Unavailable],
                       [pid |-> 1, used_gpu_memory |-> Used(2)]>>
    /\ Len(ret.val) = 2
    /\ ret.val[1] = [pid |-> 1, name |-> "comm", gpu_memory |-> 2,
                     process_type |-> "Mixed"]

\* C8 (as claimed): a record is tagged Compute iff its PID is in the compute
\* list only, Graphics iff in the graphics list only, Mixed iff in both; and
\* two lists with disjoint PIDs give as many records as entries.
C8_TagsTellOrigin ==
    Returned =>
        /\ \A k \in 1..Len(ret.val) :
            LET r   == ret.val[k]
                inC == Reports(EffCompute, r.pid) > 0
                inG == Reports(EffGraphics, r.pid) > 0
            IN  /\ r.process_type = "Compute"  <=> (inC /\ ~inG)
                /\ r.process_type = "Graphics" <=> (inG /\ ~inC)
                /\ r.process_type = "Mixed"    <=> (inC /\ inG)
        /\ (\A p \in Pids : Reports(EffCompute, p) = 0
                            \/ Reports(EffGraphics, p) = 0)
            => Len(ret.val) = Len(EffCompute) + Len(EffGraphics)

\* The entries of a list that are the first to report their PID.
RECURSIVE FirstReports(_, _)
FirstReports(list, seen) ==
    IF list = <<>> THEN <<>>
    ELSE IF Head(list).pid \in seen THEN FirstReports(Tail(list), seen)
         ELSE <<Head(list)>> \o FirstReports(Tail(list), seen \cup {Head(list).pid})

PidsOf(list) == [k \in 1..Len(list) |-> list[k].pid]
WithMemory(list, m) == SelectSeq(list, LAMBDA r : r.gpu_memory = m)

\* C9: the returned list is non-increasing by memory, and the records of
\* equal memory stand in the order of the list before sorting, which is the
\* compute entries as reported followed by the graphics-only PIDs as first
\* reported.
C9_StableDescending ==
    Returned =>
        LET unsorted == MergeProcesses(MergeDev)
        IN  /\ \A i \in 1..(Len(ret.val) - 1) :
                ret.val[i].gpu_memory >= ret.val[i + 1].gpu_memory
            /\ \A m \in {unsorted[k].gpu_memory : k \in 1..Len(unsorted)}
                     \cup {ret.val[k].gpu_memory : k \in 1..Len(ret.val)} :
                WithMemory(ret.val, m) = WithMemory(unsorted, m)
            /\ PidsOf(unsorted) =
                PidsOf(EffCompute)
                \o PidsOf(FirstReports(EffGraphics,
                            {EffCompute[k].pid : k \in 1..Len(EffCompute)}))

\* Three records with memory 1, 2, 2 before sorting: the two records of
\* memory 2 (PID 2 from the compute list, PID 3 from the graphics list)
\* moved ahead of PID 1 and kept their order.
C9_Witness ==
    /\ Returned
    /\ PidsOf(EffCompute) = <<1, 2>>
    /\ PidsOf(EffGraphics) = <<3>>
    /\ Len(ret.val) = 3
    /\ PidsOf(ret.val) = <<2, 3, 1>>
    /\ ret.val[1].gpu_memory = 2
    /\ ret.val[2].gpu_memory = 2
    /\ ret.val[3].gpu_memory = 1

\* ---- failing refresh ----

\* A step of App::run whose refresh tick got a failing answer from
\* get_all_gpu_info (enumeration error, zero devices, or a device query
\* followed by "?").
FailedTick ==
    pc = "loop" /\ ticks' = ticks + 1 /\ ~get_all_gpu_info(nvml').ok

\* C10: a refresh tick that fails ends the loop with that error, leaving
\* the snapshot set, both history collections, the scroll offset and the
\* last-refresh timestamp as they were; once run has returned, nothing
\* more happens (no refresh, no render).
C10_FailedTickEndsRun ==
    [][/\ FailedTick =>
            /\ pc' = "returned"
            /\ result' = get_all_gpu_info(nvml').err
            /\ UNCHANGED appvars
       /\ pc = "returned" => UNCHANGED vars]_vars

\* The second tick found no devices: run returned NoDevices while the App
\* still holds the first tick's snapshot, its sample and a scrolled offset.
C10_Witness ==
    /\ pc = "returned"
    /\ result = "NoDevices"
    /\ ticks = 2
    /\ Len(gpus) = 1
    /\ Len(gpu_history[1]) = 1
    /\ process_scroll = 3
    /\ last_refresh = 0
    /\ now = 1

\* ---- outcomes of get_all_gpu_info ----

\* A query followed by "?" fails for some enumerated device.
SomeFatalFailure ==
    \E i \in 1..Len(nvml.devs) : nvml.devs[i].fail \cap FatalQueries # {}

\* One snapshot per enumerated device, position i holding device index i.
SnapshotsInIndexOrder ==
    /\ ret.ok
    /\ Len(ret.val) = nvml.count
    /\ \A i \in 1..Len(ret.val) : ret.val[i].device.index = i - 1

\* C11 (as claimed): NoDevices exactly when enumeration succeeds with zero
\* devices, an NVML error other than NoDevices when enumeration fails, and
\* in every other case one snapshot per device in index order.
C11_ThreeOutcomes ==
    Returned =>
        /\ (~ret.ok /\ ret.err = "NoDevices")
                <=> (nvml.count_ok /\ nvml.count = 0)
        /\ ~nvml.count_ok => (~ret.ok /\ ret.err = "Nvml")
        /\ (nvml.count_ok /\ nvml.count > 0) => SnapshotsInIndexOrder

\* C11 (amended): as claimed, except that with devices enumerated the
\* snapshots are returned only when no device fails a query followed by
\* "?"; when one does, the NVML error is returned.
C11_FourOutcomes ==
    Returned =>
        /\ (~ret.ok /\ ret.err = "NoDevices")
                <=> (nvml.count_ok /\ nvml.count = 0)
        /\ ~nvml.count_ok => (~ret.ok /\ ret.err = "Nvml")
        /\ (nvml.count_ok /\ nvml.count > 0 /\ ~SomeFatalFailure)
                => SnapshotsInIndexOrder
        /\ (nvml.count_ok /\ nvml.count > 0 /\ SomeFatalFailure)
                => (~ret.ok /\ ret.err = "Nvml")

\* Two devices enumerated, none failing a mandatory query: two snapshots
\* with device indices 0 and 1 and the utilization of their own device.
C11_Witness ==
    /\ Returned
    /\ nvml.count = 2
    /\ nvml.devs[1].fail = {"fan_speed"}
    /\ ret.ok
    /\ Len(ret.val) = 2
    /\ ret.val[1].device.index = 0
    /\ ret.val[2].device.index = 1
    /\ ret.val[2].metrics.gpu_utilization = nvml.devs[2].gpu

\* ---- scroll controller ----

\* C12: a successful refresh sets the offset from the process count N of
\* the first device of the new snapshot set alone: 0 when N <= 10, N - 10
\* when the offset exceeded N - 10, the old offset otherwise.
C12_RefreshClampsScroll ==
    [][RefreshedStep =>
        LET N == Len(gpus'[1].processes)
        IN  process_scroll' =
                IF N <= VisibleRows THEN 0
                ELSE IF process_scroll > N - VisibleRows
                     THEN N - VisibleRows
                     ELSE process_scroll]_vars

\* The second refresh brought two devices, the first with 11 processes and
\* the second with 20: the offset stands at 11 - 10.
C12_Witness ==
    /\ pc = "draw"
    /\ refreshed
    /\ ticks = 2
    /\ Len(gpus) = 2
    /\ Len(gpus[1].processes) = 11
    /\ Len(gpus[2].processes) = 20
    /\ process_scroll = 1

\* A step of App::run in which handle_events read an event.
EventStep == pc = "poll" /\ pc' = "loop" /\ last_event' # NoEvent

\* C13: a Down (or j) press adds 1 to the offset when it is below
\* max(0, N - 10) and leaves it otherwise; an Up (or k) press subtracts 1
\* when it is above 0 and leaves it at 0 otherwise.
C13_KeysMoveByOne ==
    [][EventStep =>
        /\ IsPress(last_event', {"Down", "j"}) =>
            process_scroll' =
                IF process_scroll < Max(0, RefCount - VisibleRows)
                THEN process_scroll + 1 ELSE process_scroll
        /\ IsPress(last_event', {"Up", "k"}) =>
            process_scroll' =
                IF process_scroll > 0 THEN process_scroll - 1 ELSE 0]_vars

\* A Down press was read with 15 processes listed and the offset is 5, the
\* largest offset for that list.
C13_Witness ==
    /\ pc = "loop"
    /\ last_event = KeyEvent("Press", "Down")
    /\ RefCount = 15
    /\ process_scroll = 5

\* ---- history tracker ----

Last(series) == series[Len(series)]

\* C14: the number of series never decreases, covers the devices of the
\* latest snapshot set and is the same in both collections; a refresh gives
\* series i the sample of the device at position i and leaves the series of
\* a device that is absent from the new set as it was; no other step
\* touches the histories.
C14_SeriesFollowDevices ==
    [][/\ Len(gpu_history') >= Len(gpu_history)
       /\ Len(gpu_history') >= Len(gpus')
       /\ Len(memory_history') = Len(gpu_history')
       /\ RefreshedStep =>
            /\ \A i \in 1..Len(gpus') :
                /\ Last(gpu_history'[i]) = nvml'.devs[i].gpu
                /\ Last(memory_history'[i]) = AnswerPercent(nvml'.devs[i])
                /\ Len(gpu_history'[i]) <= Len(SeriesAt(gpu_history, i)) + 1
            /\ \A i \in (Len(gpus') + 1)..Len(gpu_history) :
                /\ gpu_history'[i] = gpu_history[i]
                /\ memory_history'[i] = memory_history[i]
       /\ ~RefreshedStep =>
            UNCHANGED <<gpu_history, memory_history>>]_vars

\* Two devices at the first refresh, one at the second: the first series
\* has two samples, the second still its single sample 99.
C14_Witness ==
    /\ pc = "draw"
    /\ refreshed
    /\ Len(gpus) = 1
    /\ Len(gpu_history) = 2
    /\ Len(memory_history) = 2
    /\ Len(gpu_history[1]) = 2
    /\ gpu_history[2] = <<99>>
    /\ memory_history[2] = <<75>>

\* ---- loop order ----

\* Snapshot set, histories and offset come from one completed refresh.
Coherent ==
    /\ Len(gpu_history) >= Len(gpus)
    /\ Len(memory_history) >= Len(gpus)
    /\ \A i \in 1..Len(gpus) :
        /\ Last(gpu_history[i]) = gpus[i].metrics.gpu_utilization
        /\ Last(memory_history[i]) = usage_percent(gpus[i].memory)
    /\ process_scroll <= Max(0, RefCount - VisibleRows)

\* C15: an iteration goes from the top of the loop through at most one
\* refresh to the render, from the render to the input wait and from there
\* back to the top (or out of run); the render and the wait do not refresh,
\* and whenever the render is reached after a refresh, the last sample of
\* series i is that of snapshot i and the offset is already clamped.
C15_RenderSeesWholeRefresh ==
    [][/\ pc = "loop" =>
            /\ pc' \in {"draw", "returned"}
            /\ ticks' \in {ticks, ticks + 1}
       /\ pc = "draw" =>
            /\ pc' \in {"poll", "returned"}
            /\ UNCHANGED <<appvars, ticks>>
       /\ pc = "poll" =>
            /\ pc' \in {"loop", "returned"}
            /\ now' - now \in {0, 1}
            /\ UNCHANGED <<gpus, gpu_history, memory_history, last_refresh,
                           ticks>>
       /\ (pc' = "draw" /\ gpus' # <<>>) => Coherent']_vars

\* The render after the second refresh: two devices, each series ending in
\* the utilization of its own snapshot (7 and 99).
C15_Witness ==
    /\ pc = "draw"
    /\ refreshed
    /\ ticks = 2
    /\ Len(gpus) = 2
    /\ gpus[1].metrics.gpu_utilization = 7
    /\ Last(gpu_history[1]) = 7
    /\ Last(gpu_history[2]) = 99
    /\ Len(gpu_history[2]) = 2
    /\ process_scroll = 0

\* ---- quit ----

\* C16: a q or Esc press read by handle_events sets the exit flag; with the
\* flag set, the only step from the top of the loop is the return of Ok,
\* without refresh or render, and nothing follows the return.
C16_QuitEndsRun ==
    [][/\ (EventStep /\ IsPress(last_event', {"q", "Esc"})) => exit'
       /\ (pc = "loop" /\ exit) =>
            /\ pc' = "returned"
            /\ result' = "Ok"
            /\ UNCHANGED <<appvars, ticks>>
       /\ pc = "returned" => UNCHANGED vars]_vars

\* run returned Ok after an Esc press, the App still holding a snapshot.
C16_Witness ==
    /\ pc = "returned"
    /\ result = "Ok"
    /\ exit
    /\ last_event = KeyEvent("Press", "Esc")
    /\ gpus # <<>>

\* ---- refresh scheduler ----

\* C17: once a first refresh is in, an iteration refreshes exactly when the
\* time since last_refresh has reached the interval; an iteration that does
\* not refresh goes on to render with snapshot set and histories unchanged;
\* last_refresh changes only in a step that completed a refresh, to the
\* time of that step.
C17_RefreshWhenDue ==
    [][/\ (pc = "loop" /\ ~exit /\ gpus # <<>>) =>
            /\ (ticks' = ticks + 1) <=> (now - last_refresh >= interval)
            /\ (ticks' = ticks) =>
                /\ pc' = "draw"
                /\ UNCHANGED <<gpus, gpu_history, memory_history,
                               last_refresh>>
       /\ (pc \in {"draw", "poll"}) =>
            UNCHANGED <<gpus, gpu_history, memory_history, last_refresh>>
       /\ last_refresh' # last_refresh => RefreshedStep
       /\ RefreshedStep => last_refresh' = now]_vars

\* Interval of one second: a refresh at time 0, an iteration without
\* refresh in which a Down press moved the offset, and the second refresh
\* at time 1.
C17_Witness ==
    /\ pc = "draw"
    /\ refreshed
    /\ interval = 1
    /\ ticks = 2
    /\ last_refresh = 1
    /\ now = 1
    /\ process_scroll = 1

\* ---- input frame ----

\* C19: an input event never changes interval, snapshot set, histories or
\* last_refresh; an event that is not a key event, a key event of a kind
\* other than Press, and a press of a key outside q, Esc, Up, k, Down, j
\* leave every field of the App unchanged.
C19_InputFrame ==
    [][EventStep =>
        /\ UNCHANGED <<interval, gpus, gpu_history, memory_history,
                       last_refresh>>
        /\ (\/ last_event'.type # "Key"
            \/ last_event'.kind # "Press"
            \/ last_event'.code \notin {"q", "Esc", "Up", "k", "Down", "j"})
           => UNCHANGED appvars]_vars

\* A release of q was read while a snapshot with a scrolled list was held,
\* and the loop goes on.
C19_Witness ==
    /\ pc = "loop"
    /\ last_event = KeyEvent("Release", "q")
    /\ ~exit
    /\ gpus # <<>>
    /\ process_scroll = 1

\* ---- failing process queries ----

\* A refresh tick whose library answer enumerates devices and fails no query
\* followed by "?".
ProcessFailureTick ==
    /\ pc = "loop"
    /\ ticks' = ticks + 1
    /\ nvml'.count_ok
    /\ nvml'.count > 0
    /\ \A i \in 1..Len(nvml'.devs) : nvml'.devs[i].fail \cap FatalQueries = {}

PidSet(list) == {list[k].pid : k \in 1..Len(list)}

\* C20 (as claimed): a refresh whose only failing queries are process
\* queries commits one snapshot per device; where the compute query alone
\* failed the records are the PIDs of the graphics list, all tagged
\* Graphics; where the graphics query alone failed they are the PIDs of the
\* compute list, all tagged Compute; where both failed the list is empty,
\* and when that is the first device the scroll offset becomes 0.
C20_FailedListIsEmpty ==
    [][ProcessFailureTick =>
        /\ pc' = "draw"
        /\ Len(gpus') = Len(nvml'.devs)
        /\ \A i \in 1..Len(gpus') :
            LET fail == nvml'.devs[i].fail \cap ProcessQueries
                recs == gpus'[i].processes
            IN  /\ fail = {"running_compute_processes"} =>
                    /\ PidSet(recs) = PidSet(nvml'.devs[i].graphics)
                    /\ \A k \in 1..Len(recs) :
                        recs[k].process_type = "Graphics"
                /\ fail = {"running_graphics_processes"} =>
                    /\ PidSet(recs) = PidSet(nvml'.devs[i].compute)
                    /\ \A k \in 1..Len(recs) :
                        recs[k].process_type = "Compute"
                /\ fail = ProcessQueries => recs = <<>>
        /\ ProcessQueries \subseteq nvml'.devs[1].fail
            => process_scroll' = 0]_vars

\* ---- GUI ----

\* The response of command c when the monitor was never initialised.
NotInitialized(c) ==
    IF c = "is_gpu_available" THEN Ok(FALSE)
    ELSE IF c = "get_gpu_info" THEN Err(NotInitializedInfo)
    ELSE Err(NotInitializedCount)

\* C18: once AppState::default() has run, no step calls GpuMonitor::new()
\* or changes the Option; when it holds None, every command answers false
\* (is_gpu_available) or its not-initialized error (get_gpu_info,
\* get_gpu_count); a thread holds the lock exactly from its lock() to its
\* return, which frees the lock.
C18_FailedInitIsPermanent ==
    [][/\ inits > 0 => (inits' = inits /\ monitor' = monitor)
       /\ \A t \in Threads :
            /\ (inits > 0 /\ monitor = None
                /\ tpc[t] = "locked" /\ tpc'[t] = "answered")
               => resp'[t] = NotInitialized(cmd[t])
            /\ (lock_owner' = t) <=> (tpc'[t] \in {"locked", "answered"})
            /\ (tpc[t] = "answered" /\ tpc'[t] # "answered")
               => (tpc'[t] = "idle" /\ lock_owner = t /\ lock_owner' = 0)]_vars

\* Initialisation failed; thread 1 has had its get_gpu_info rejected and
\* waits for the lock with is_gpu_available while thread 2 holds it, having
\* computed the rejection of get_gpu_count.
C18_Witness ==
    /\ inits = 1
    /\ monitor = None
    /\ tpc[1] = "lock"
    /\ cmd[1] = "is_gpu_available"
    /\ lock_owner = 2
    /\ tpc[2] = "answered"
    /\ cmd[2] = "get_gpu_count"
    /\ resp[2] = Err(NotInitializedCount)

=============================================================================
